---- MODULE Spec2Model ----
(***************************************************************************)
(* Model of the geolocation service's location store.                      *)
(*                                                                         *)
(*   - InMemoryLocationRepository (internal/repository/memory)             *)
(*   - PostgresLocationRepository (internal/repository/postgres)           *)
(*   - LocationService.CreateLocation (internal/service)                   *)
(*   - geospatial.HaversineDistance (pkg/geospatial)                       *)
(*                                                                         *)
(* Go strings are sequences of one-character strings ("" is <<>>).         *)
(* Angles are in tenths of a degree, float64 distances in tenths of a      *)
(* kilometre; NaN is a value of its own that compares false with           *)
(* everything, as in IEEE 754.  A *domain.Location is an index into heap;  *)
(* the nil pointer is NilPtr.                                              *)
(***************************************************************************)
EXTENDS Integers, Sequences, FiniteSets, TLC

VARIABLES
    heap,           \* the domain.Location objects callers have allocated
    locations,      \* InMemoryLocationRepository.locations: name -> pointer
    locationsById,  \* InMemoryLocationRepository.locationsById: id -> pointer
    nextID,         \* InMemoryLocationRepository.nextID
    mu,             \* InMemoryLocationRepository.mu (sync.RWMutex)
    pc,             \* where each caller is: "idle", "call", "cs", "store", "insert", "done",
                    \* or "panic" once its goroutine has panicked
    call,           \* the repository method each caller is in, and its arguments
    ret,            \* what each caller's last operation returned
    live,           \* history: pointers whose Save succeeded, not deleted since
    deleted,        \* history: pointers a Delete removed, not saved again since
    backend,        \* cfg.Storage: the repository the process was started with
    rows,           \* the rows of table locations
    serial,         \* the next value of the sequence behind locations.id
    conv            \* a caller of pkg/geospatial converting a distance there and back

vars == <<heap, locations, locationsById, nextID, mu, pc, call, ret, live, deleted,
          backend, rows, serial, conv>>

memVars == <<locations, locationsById, nextID, mu, live, deleted>>

pgVars == <<rows, serial>>

----------------------------------------------------------------------------
(* Bounds *)

MaxObjs == 2

MaxSerial == 2

MaxMiles == 20

Procs == {"p1", "p2"}

Client == "p1"

RaceName == <<"a">>

RaceRawNames == {<<"a">>, <<"a", " ">>}

NewNames == {<<"a">>, <<"b">>}

LookupNames == {<<>>, <<"a">>, <<"b">>}

PtA == [Latitude |->  25, Longitude |-> -740]

PtB == [Latitude |-> -25, Longitude |-> 1060]

PtC == [Latitude |->  25, Longitude |-> -750]

Coords == {PtA, PtB, PtC}

NewCoords == {PtB, PtC}

LookupIDs == {<<"1">>, <<"2">>}

RawNames == {<<" ">>, <<"a">>, <<"a", " ">>}

PtOut == [Latitude |-> 910, Longitude |-> -740]

CreateCoords == {PtC, PtOut}

CreateNames == {<<>>, <<" ">>, <<"a">>, <<" ", "b">>}

EdgeCoords == {[Latitude |-> 0, Longitude |-> 0],
               [Latitude |-> 900, Longitude |-> 1800],
               [Latitude |-> -900, Longitude |-> -1800],
               [Latitude |-> 910, Longitude |-> 0],
               [Latitude |-> -910, Longitude |-> 0],
               [Latitude |-> 0, Longitude |-> 1810],
               [Latitude |-> 0, Longitude |-> -1810]}

PresetIDs == {<<"1">>}

MutatedCoords == {PtB, PtC}

----------------------------------------------------------------------------
(* Values *)

NilPtr == 0

ZeroTime == 0

Now == 1

NaN == -1

MaxFloat64 == 2147483647

NoProc == "none"

ErrNil == "nil"

ErrLocationNotFound == "location not found"

ErrLocationExists == "location already exists"

ErrInvalidLocation == "invalid location"

ErrTransport == "driver: bad connection"

ErrUniqueViolation == "pq: duplicate key value violates unique constraint"

MemoryRepository == "memory"

PostgresRepository == "postgres"

NoCoord == [Latitude |-> 0, Longitude |-> 0]

(* failed is history: a round trip of the operation in progress has *)
(* failed in the transport.                                         *)
(* unit is the unit query parameter of a GET /nearest, "none" when the *)
(* request has none.                                                 *)
NoCall == [svc |-> "none", meth |-> "none", loc |-> NilPtr, name |-> <<>>, q |-> NoCoord,
           failed |-> FALSE, unit |-> "none"]

NoLocation == [ID |-> <<>>, Name |-> <<>>, Latitude |-> 0, Longitude |-> 0,
               CreatedAt |-> ZeroTime]

(* What a method returns: the error; the *Location, as a pointer into heap *)
(* (in-memory store) or as the Location built from a row (PostgreSQL);    *)
(* the distance; the slice.                                               *)
NoRet == [err |-> ErrNil, loc |-> NilPtr, val |-> NoLocation, dist |-> 0, list |-> <<>>]

(* The float64 comparison a < b: false when either side is NaN. *)
FloatLess(a, b) == a # NaN /\ b # NaN /\ a < b

Digit == <<"0", "1", "2", "3", "4", "5", "6", "7", "8", "9">>

(* fmt.Sprintf("%d", n) for n >= 0 *)
RECURSIVE FormatInt(_)
FormatInt(n) ==
    IF n < 10 THEN <<Digit[n + 1]>>
    ELSE FormatInt(n \div 10) \o <<Digit[(n % 10) + 1]>>

(* Go maps: make(map...), m[k] = v, delete(m, k), and the orders in which *)
(* a range statement can visit the keys (unspecified by the language and  *)
(* randomised by the runtime).                                            *)
EmptyMap == [k \in {} |-> NilPtr]

MapPut(m, k, v) == [x \in (DOMAIN m) \cup {k} |-> IF x = k THEN v ELSE m[x]]

MapDelete(m, k) == [x \in (DOMAIN m) \ {k} |-> m[x]]

RangeOrders(m) ==
    LET n == Cardinality(DOMAIN m)
    IN {s \in [1..n -> DOMAIN m] : \A i, j \in 1..n : s[i] = s[j] => i = j}

----------------------------------------------------------------------------
(* pkg/geospatial *)

(* HaversineDistance(p1, p2) as lines 25-35 evaluate it in float64, in     *)
(* tenths of a kilometre, for the coordinates of Coords:                   *)
(*   (2.5,-74.0)-(2.5,-75.0)    111.089 km                                 *)
(*   (-2.5,106.0)-(2.5,-75.0)   19903.998 km                               *)
(*   (2.5,-74.0)-(-2.5,106.0)   antipodal: a = 1.0000000000000002, so      *)
(*                              math.Sqrt(1-a) is NaN, and so are          *)
(*                              math.Atan2(..., NaN) and the distance      *)
HaversineDistance(p1, p2) ==
    CASE p1 = p2 -> 0
      [] {p1, p2} = {PtA, PtC} -> 1111
      [] {p1, p2} = {PtB, PtC} -> 199040
      [] {p1, p2} = {PtA, PtB} -> NaN

(* Conversion constants (lines 41-46), in millionths *)
KmToMilesRatio == 621371

KmToNauticalMilesRatio == 539957

MilesToKmRatio == 1609344

NauticalMilesToKmRatio == 1852000

(* v * r for v below 2^31 and r below 2^21, as hi * 10^9 + lo: the exact *)
(* product, from which the float64 product differs by a relative 2^-52  *)
(* at most.                                                              *)
BigMul(v, r) ==
    LET v1 == v \div 1000
        v0 == v % 1000
        r1 == r \div 1000
        r0 == r % 1000
        a == v1 * r1
        b == v1 * r0 + v0 * r1
        c == v0 * r0
        low == (a % 1000) * 1000000 + (b % 1000000) * 1000 + c
    IN [hi |-> a \div 1000 + b \div 1000000 + low \div 1000000000,
        lo |-> low % 1000000000]

(* km * KmToMilesRatio: km in some unit u, the miles in millionths of u *)
KmToMiles(km) == BigMul(km, KmToMilesRatio)

KmToNauticalMiles(km) == BigMul(km, KmToNauticalMilesRatio)

(* miles * MilesToKmRatio: whole miles, the kilometres in millionths *)
MilesToKm(miles) == miles * MilesToKmRatio

NauticalMilesToKm(nauticalMiles) == nauticalMiles * NauticalMilesToKmRatio

NoConv == [pc |-> "idle", unit |-> "none", x |-> 0, km |-> 0, back |-> [hi |-> 0, lo |-> 0]]

(* a caller picks a distance in whole miles or nautical miles *)
ConvStart(unit, x) ==
    /\ conv.pc \in {"idle", "done"}
    /\ conv' = [NoConv EXCEPT !.pc = "start", !.unit = unit, !.x = x]
    /\ UNCHANGED <<heap, pc, call, ret, memVars, pgVars, backend>>

(* MilesToKm(x), NauticalMilesToKm(x) *)
ConvToKm ==
    /\ conv.pc = "start"
    /\ conv' = [conv EXCEPT !.pc = "km",
                            !.km = IF conv.unit = "miles" THEN MilesToKm(conv.x)
                                   ELSE NauticalMilesToKm(conv.x)]
    /\ UNCHANGED <<heap, pc, call, ret, memVars, pgVars, backend>>

(* KmToMiles(km), KmToNauticalMiles(km) *)
ConvBack ==
    /\ conv.pc = "km"
    /\ conv' = [conv EXCEPT !.pc = "done",
                            !.back = IF conv.unit = "miles" THEN KmToMiles(conv.km)
                                     ELSE KmToNauticalMiles(conv.km)]
    /\ UNCHANGED <<heap, pc, call, ret, memVars, pgVars, backend>>

----------------------------------------------------------------------------
(* internal/repository/memory: sync.RWMutex *)

IsWriter(meth) == meth \in {"Save", "Delete"}

(* a Lock that excludes nobody *)
CanLockAlways(p) == TRUE

CanLock(p) == mu.w = NoProc /\ mu.r = {}

(* an RLock that does not wait for the writer *)
CanRLockAlways(p) == TRUE

CanRLock(p) == mu.w = NoProc

(* a return that keeps the lock *)
ReleasedNever(p) == mu

Released(p) == [w |-> IF mu.w = p THEN NoProc ELSE mu.w, r |-> mu.r \ {p}]

Idle(p) == pc[p] \in {"idle", "done"}

Begin(p, c) ==
    /\ pc' = [pc EXCEPT ![p] = "call"]
    /\ call' = [call EXCEPT ![p] = c]
    /\ ret' = [ret EXCEPT ![p] = NoRet]

(* A pointer some caller is still handing to the store. *)
InFlight(l) == \E q \in Procs : pc[q] \in {"call", "cs", "store", "insert"} /\ call[q].loc = l

Return(p, r) ==
    /\ pc' = [pc EXCEPT ![p] = "done"]
    /\ ret' = [ret EXCEPT ![p] = r]
    /\ mu' = Released(p)

(* r.mu.Lock() *)
Lock(p) ==
    /\ backend = MemoryRepository
    /\ pc[p] = "call"
    /\ IsWriter(call[p].meth)
    /\ CanLock(p)
    /\ mu' = [mu EXCEPT !.w = p]
    /\ pc' = [pc EXCEPT ![p] = "cs"]
    /\ UNCHANGED <<heap, locations, locationsById, nextID, call, ret, live, deleted, pgVars, backend, conv>>

(* r.mu.RLock() *)
RLock(p) ==
    /\ backend = MemoryRepository
    /\ pc[p] = "call"
    /\ ~IsWriter(call[p].meth)
    /\ CanRLock(p)
    /\ mu' = [mu EXCEPT !.r = @ \cup {p}]
    /\ pc' = [pc EXCEPT ![p] = "cs"]
    /\ UNCHANGED <<heap, locations, locationsById, nextID, call, ret, live, deleted, pgVars, backend, conv>>

----------------------------------------------------------------------------
(* internal/repository/memory: the callers *)

(* location := &domain.Location{Name: n, Latitude: ..., Longitude: ...};  *)
(* repo.Save(location)                                                     *)
CallSaveNew(p, n, c) ==
    /\ Len(heap) < MaxObjs
    /\ heap' = Append(heap, [ID |-> <<>>, Name |-> n, Latitude |-> c.Latitude,
                             Longitude |-> c.Longitude, CreatedAt |-> ZeroTime])
    /\ Begin(p, [NoCall EXCEPT !.meth = "Save", !.loc = Len(heap) + 1])
    /\ UNCHANGED <<memVars, pgVars, backend, conv>>

(* repo.Save(location) with a Location the caller already holds *)
CallSaveAgain(p, l) ==
    /\ l \in 1..Len(heap)
    /\ ~InFlight(l)
    /\ Begin(p, [NoCall EXCEPT !.meth = "Save", !.loc = l])
    /\ UNCHANGED <<heap, memVars, pgVars, backend, conv>>

(* repo.Save(&domain.Location{ID: id, Name: n, ...}): the caller has set *)
(* the id, so that Save keeps it (the else of line 35)                 *)
CallSaveWithID(p, n, c, id) ==
    /\ Len(heap) < MaxObjs
    /\ heap' = Append(heap, [ID |-> id, Name |-> n, Latitude |-> c.Latitude,
                             Longitude |-> c.Longitude, CreatedAt |-> ZeroTime])
    /\ Begin(p, [NoCall EXCEPT !.meth = "Save", !.loc = Len(heap) + 1])
    /\ UNCHANGED <<memVars, pgVars, backend, conv>>

(* repo.Save(nil) *)
CallSaveNil(p) ==
    /\ Begin(p, [NoCall EXCEPT !.meth = "Save", !.loc = NilPtr])
    /\ UNCHANGED <<heap, memVars, pgVars, backend, conv>>

(* location.Latitude, location.Longitude = ...: the caller writes to a  *)
(* Location it has handed to Save (the store keeps that pointer, lines *)
(* 40-41)                                                              *)
MutateSaved(p, l, c) ==
    /\ Idle(p)
    /\ l \in 1..Len(heap)
    /\ ~InFlight(l)
    /\ c # [Latitude |-> heap[l].Latitude, Longitude |-> heap[l].Longitude]
    /\ heap' = [heap EXCEPT ![l].Latitude = c.Latitude, ![l].Longitude = c.Longitude]
    /\ UNCHANGED <<pc, call, ret, memVars, pgVars, backend, conv>>

(* the caller writes to the Location a read of the in-memory store has *)
(* returned (FindByName and FindByID return the stored pointer)        *)
MutateReturned(p, c) ==
    /\ backend = MemoryRepository
    /\ pc[p] = "done"
    /\ ret[p].loc # NilPtr
    /\ c # [Latitude |-> heap[ret[p].loc].Latitude, Longitude |-> heap[ret[p].loc].Longitude]
    /\ heap' = [heap EXCEPT ![ret[p].loc].Latitude = c.Latitude,
                            ![ret[p].loc].Longitude = c.Longitude]
    /\ UNCHANGED <<pc, call, ret, memVars, pgVars, backend, conv>>

CallFindByName(p, n) ==
    /\ Begin(p, [NoCall EXCEPT !.meth = "FindByName", !.name = n])
    /\ UNCHANGED <<heap, memVars, pgVars, backend, conv>>

CallFindAll(p) ==
    /\ Begin(p, [NoCall EXCEPT !.meth = "FindAll"])
    /\ UNCHANGED <<heap, memVars, pgVars, backend, conv>>

CallDelete(p, n) ==
    /\ Begin(p, [NoCall EXCEPT !.meth = "Delete", !.name = n])
    /\ UNCHANGED <<heap, memVars, pgVars, backend, conv>>

CallFindNearest(p, c) ==
    /\ Begin(p, [NoCall EXCEPT !.meth = "FindNearest", !.q = c])
    /\ UNCHANGED <<heap, memVars, pgVars, backend, conv>>

CallFindByID(p, id) ==
    /\ Begin(p, [NoCall EXCEPT !.meth = "FindByID", !.name = id])
    /\ UNCHANGED <<heap, memVars, pgVars, backend, conv>>

----------------------------------------------------------------------------
(* internal/repository/memory: the methods, from the lock to the return *)

(* Save without its existence check *)
SaveExistsNever(location) == FALSE

(* line 31: _, exists := r.locations[location.Name] *)
SaveExists(location) == location.Name \in DOMAIN locations

(* Save that numbers a location by the size of the map *)
SaveIDByCount(location) ==
    IF location.ID = <<>> THEN FormatInt(Cardinality(DOMAIN locations) + 1) ELSE location.ID

(* lines 35-38: the id the location is stored under *)
SaveID(location) == IF location.ID = <<>> THEN FormatInt(nextID) ELSE location.ID

(* Save that forgets r.nextID++ *)
SaveNextIDSame(location) == nextID

(* lines 35-38: r.nextID after the Save *)
SaveNextID(location) == IF location.ID = <<>> THEN nextID + 1 ELSE nextID

(* line 40: r.locations[location.Name] = location *)
SaveLocations(location, l) == MapPut(locations, location.Name, l)

(* Save, lines 28-33.  location.Name of a nil location (line 31) is a nil *)
(* pointer dereference: the goroutine panics, and the deferred          *)
(* r.mu.Unlock() runs as the panic unwinds.                             *)
SaveCheck(p) ==
    /\ backend = MemoryRepository
    /\ pc[p] = "cs"
    /\ call[p].meth = "Save"
    /\ IF call[p].loc = NilPtr
       THEN /\ pc' = [pc EXCEPT ![p] = "panic"]
            /\ mu' = Released(p)
            /\ UNCHANGED ret
       ELSE IF SaveExists(heap[call[p].loc])
       THEN Return(p, [NoRet EXCEPT !.err = ErrLocationExists])
       ELSE /\ pc' = [pc EXCEPT ![p] = "store"]
            /\ UNCHANGED <<ret, mu>>
    /\ UNCHANGED <<heap, locations, locationsById, nextID, call, live, deleted, pgVars, backend, conv>>

(* Save, lines 35-42 *)
SaveStore(p) ==
    /\ backend = MemoryRepository
    /\ pc[p] = "store"
    /\ LET l == call[p].loc
           location == heap[l]
       IN /\ heap' = [heap EXCEPT ![l].ID = SaveID(location)]
          /\ nextID' = SaveNextID(location)
          /\ locations' = SaveLocations(location, l)
          /\ locationsById' = MapPut(locationsById, SaveID(location), l)
          /\ live' = live \cup {l}
          /\ deleted' = deleted \ {l}
          /\ Return(p, [NoRet EXCEPT !.loc = IF call[p].svc = "create" THEN l ELSE NilPtr])
    /\ UNCHANGED <<call, pgVars, backend, conv>>

(* After its FindByName, CreateLocation either returns ErrLocationExists  *)
(* (service lines 28-32) or goes on to s.repo.Save(location) (line 34).   *)
FindByName(p) ==
    /\ backend = MemoryRepository
    /\ pc[p] = "cs"
    /\ call[p].meth = "FindByName"
    /\ LET name == call[p].name
           found == name \in DOMAIN locations
           r == IF found THEN [NoRet EXCEPT !.loc = locations[name]]
                ELSE [NoRet EXCEPT !.err = ErrLocationNotFound]
       IN IF call[p].svc = "create"
          THEN IF r.loc # NilPtr
               THEN /\ Return(p, [NoRet EXCEPT !.err = ErrLocationExists])
                    /\ UNCHANGED call
               ELSE /\ pc' = [pc EXCEPT ![p] = "call"]
                    /\ call' = [call EXCEPT ![p].meth = "Save"]
                    /\ mu' = Released(p)
                    /\ UNCHANGED ret
          ELSE /\ Return(p, r)
               /\ UNCHANGED call
    /\ UNCHANGED <<heap, locations, locationsById, nextID, live, deleted, pgVars, backend, conv>>

(* FindAll whose loop stops one entry early *)
FindAllSliceShort(order) ==
    [i \in 1..(Cardinality(DOMAIN locations) - 1) |-> locations[order[i]]]

(* lines 61-64: the slice the range over r.locations builds *)
FindAllSlice(order) == [i \in 1..Cardinality(DOMAIN locations) |-> locations[order[i]]]

FindAll(p) ==
    /\ backend = MemoryRepository
    /\ pc[p] = "cs"
    /\ call[p].meth = "FindAll"
    /\ \E order \in RangeOrders(locations) :
          Return(p, [NoRet EXCEPT !.list = FindAllSlice(order)])
    /\ UNCHANGED <<heap, locations, locationsById, nextID, call, live, deleted, pgVars, backend, conv>>

(* Delete without its existence check *)
DeleteExistsAlways(name) == TRUE

(* line 73: _, exists := r.locations[name] *)
DeleteExists(name) == name \in DOMAIN locations

(* Delete that leaves the entry in the map *)
DeleteLocationsKeep(name) == locations

(* line 77: delete(r.locations, name) *)
DeleteLocations(name) == MapDelete(locations, name)

Delete(p) ==
    /\ backend = MemoryRepository
    /\ pc[p] = "cs"
    /\ call[p].meth = "Delete"
    /\ LET name == call[p].name
       IN IF ~DeleteExists(name)
          THEN /\ Return(p, [NoRet EXCEPT !.err = ErrLocationNotFound])
               /\ UNCHANGED <<locations, live, deleted>>
          ELSE /\ locations' = DeleteLocations(name)
               /\ live' = IF name \in DOMAIN locations THEN live \ {locations[name]} ELSE live
               /\ deleted' = IF name \in DOMAIN locations
                             THEN deleted \cup {locations[name]} ELSE deleted
               /\ Return(p, NoRet)
    /\ UNCHANGED <<heap, locationsById, nextID, call, pgVars, backend, conv>>

CoordinateOf(l) == [Latitude |-> heap[l].Latitude, Longitude |-> heap[l].Longitude]

(* lines 89-102: the scan, visiting the keys in the given order *)
RECURSIVE Scan(_, _, _, _)
Scan(order, i, q, acc) ==
    IF i > Cardinality(DOMAIN locations) THEN acc
    ELSE LET location == locations[order[i]]
             distance == HaversineDistance(q, CoordinateOf(location))
         IN Scan(order, i + 1, q,
                 IF FloatLess(distance, acc.minDistance)
                 THEN [nearest |-> location, minDistance |-> distance]
                 ELSE acc)

(* FindNearest without the len(r.locations) == 0 return *)
NearestUnguarded(order, q) ==
    LET acc == Scan(order, 1, q, [nearest |-> NilPtr, minDistance |-> MaxFloat64])
    IN [NoRet EXCEPT !.loc = acc.nearest, !.dist = acc.minDistance]

(* lines 85-104 *)
Nearest(order, q) ==
    IF Cardinality(DOMAIN locations) = 0
    THEN [NoRet EXCEPT !.err = ErrLocationNotFound]
    ELSE LET acc == Scan(order, 1, q, [nearest |-> NilPtr, minDistance |-> MaxFloat64])
         IN [NoRet EXCEPT !.loc = acc.nearest, !.dist = acc.minDistance]

FindNearest(p) ==
    /\ backend = MemoryRepository
    /\ pc[p] = "cs"
    /\ call[p].meth = "FindNearest"
    /\ \E order \in RangeOrders(locations) : Return(p, Nearest(order, call[p].q))
    /\ UNCHANGED <<heap, locations, locationsById, nextID, call, live, deleted, pgVars, backend, conv>>

FindByID(p) ==
    /\ backend = MemoryRepository
    /\ pc[p] = "cs"
    /\ call[p].meth = "FindByID"
    /\ LET id == call[p].name
       IN IF id \notin DOMAIN locationsById
          THEN Return(p, [NoRet EXCEPT !.err = ErrLocationNotFound])
          ELSE Return(p, [NoRet EXCEPT !.loc = locationsById[id]])
    /\ UNCHANGED <<heap, locations, locationsById, nextID, call, live, deleted, pgVars, backend, conv>>

----------------------------------------------------------------------------
(* internal/repository/postgres.  Every method is one round trip to the   *)
(* database (Save: two); fails says whether the round trip fails in the   *)
(* transport.                                                             *)

(* ST_Distance(geom, ST_SetSRID(ST_MakePoint(lng, lat), 4326)::geography): *)
(* the geodesic distance on the WGS 84 spheroid in metres (here in tenths  *)
(* of a metre), for the coordinates of Coords.                             *)
STDistance(p1, p2) ==
    CASE p1 = p2 -> 0
      [] {p1, p2} = {PtA, PtC} -> 1112142
      [] {p1, p2} = {PtB, PtC} -> 199262306
      [] {p1, p2} = {PtA, PtB} -> 200039315

RowCoordinate(row) == [Latitude |-> row.latitude, Longitude |-> row.longitude]

(* the Scan of a row into a domain.Location, with fmt.Sprintf("%d", id) *)
ScanLocation(row) ==
    [ID |-> FormatInt(row.id), Name |-> row.name, Latitude |-> row.latitude,
     Longitude |-> row.longitude, CreatedAt |-> row.created_at]

RowsNamed(name) == {row \in rows : row.name = name}

PgReturn(p, r) ==
    /\ pc' = [pc EXCEPT ![p] = "done"]
    /\ ret' = [ret EXCEPT ![p] = r]

(* Save, lines 21-24: the existence check through r.FindByName *)
PgSaveCheck(p, fails) ==
    /\ backend = PostgresRepository
    /\ pc[p] = "call"
    /\ call[p].meth = "Save"
    /\ LET name == heap[call[p].loc].Name
           err == IF fails THEN ErrTransport
                  ELSE IF RowsNamed(name) = {} THEN ErrLocationNotFound ELSE ErrNil
       IN IF err = ErrNil
          THEN PgReturn(p, [NoRet EXCEPT !.err = ErrLocationExists])
          ELSE /\ pc' = [pc EXCEPT ![p] = "insert"]
               /\ UNCHANGED ret
    /\ call' = [call EXCEPT ![p].failed = @ \/ fails]
    /\ UNCHANGED <<heap, memVars, pgVars, backend, conv>>

(* Save, lines 26-37: INSERT ... RETURNING id, created_at *)
PgSaveInsert(p, fails) ==
    /\ backend = PostgresRepository
    /\ pc[p] = "insert"
    /\ LET l == call[p].loc
           location == heap[l]
           row == [id |-> serial, name |-> location.Name, latitude |-> location.Latitude,
                   longitude |-> location.Longitude, created_at |-> Now]
       IN IF fails
          THEN /\ PgReturn(p, [NoRet EXCEPT !.err = ErrTransport])
               /\ UNCHANGED <<heap, rows, serial>>
          ELSE /\ serial <= MaxSerial
               /\ serial' = serial + 1
               /\ IF RowsNamed(location.Name) # {}
                  THEN /\ PgReturn(p, [NoRet EXCEPT !.err = ErrUniqueViolation])
                       /\ UNCHANGED <<heap, rows>>
                  ELSE /\ rows' = rows \cup {row}
                       /\ heap' = [heap EXCEPT ![l].ID = FormatInt(row.id),
                                               ![l].CreatedAt = row.created_at]
                       /\ PgReturn(p, [NoRet EXCEPT
                               !.loc = IF call[p].svc = "create" THEN l ELSE NilPtr])
    /\ UNCHANGED <<call, memVars, backend, conv>>

(* FindByName, lines 40-64; inside CreateLocation the error is dropped *)
(* (service line 28) and a nil result leads on to s.repo.Save.          *)
PgFindByName(p, fails) ==
    /\ backend = PostgresRepository
    /\ pc[p] = "call"
    /\ call[p].meth = "FindByName"
    /\ LET found == RowsNamed(call[p].name)
           r == IF fails THEN [NoRet EXCEPT !.err = ErrTransport]
                ELSE IF found = {} THEN [NoRet EXCEPT !.err = ErrLocationNotFound]
                ELSE [NoRet EXCEPT !.val = ScanLocation(CHOOSE row \in found : TRUE)]
       IN IF call[p].svc = "create"
          THEN IF r.val # NoLocation
               THEN /\ PgReturn(p, [NoRet EXCEPT !.err = ErrLocationExists])
                    /\ UNCHANGED call
               ELSE /\ call' = [call EXCEPT ![p].meth = "Save", ![p].failed = @ \/ fails]
                    /\ UNCHANGED <<pc, ret>>
          ELSE /\ PgReturn(p, r)
               /\ UNCHANGED call
    /\ UNCHANGED <<heap, memVars, pgVars, backend, conv>>

(* FindByID, lines 66-90 *)
PgFindByID(p, fails) ==
    /\ backend = PostgresRepository
    /\ pc[p] = "call"
    /\ call[p].meth = "FindByID"
    /\ LET found == {row \in rows : FormatInt(row.id) = call[p].name}
       IN PgReturn(p, IF fails THEN [NoRet EXCEPT !.err = ErrTransport]
                      ELSE IF found = {} THEN [NoRet EXCEPT !.err = ErrLocationNotFound]
                      ELSE [NoRet EXCEPT !.val = ScanLocation(CHOOSE row \in found : TRUE)])
    /\ UNCHANGED <<heap, call, memVars, pgVars, backend, conv>>

(* SELECT ... ORDER BY id *)
RECURSIVE OrderById(_)
OrderById(rs) ==
    IF rs = {} THEN <<>>
    ELSE LET first == CHOOSE row \in rs : \A other \in rs : row.id <= other.id
         IN <<ScanLocation(first)>> \o OrderById(rs \ {first})

(* FindAll, lines 92-126 *)
PgFindAll(p, fails) ==
    /\ backend = PostgresRepository
    /\ pc[p] = "call"
    /\ call[p].meth = "FindAll"
    /\ PgReturn(p, IF fails THEN [NoRet EXCEPT !.err = ErrTransport]
                   ELSE [NoRet EXCEPT !.list = OrderById(rows)])
    /\ UNCHANGED <<heap, call, memVars, pgVars, backend, conv>>

(* Delete, lines 128-146 *)
PgDelete(p, fails) ==
    /\ backend = PostgresRepository
    /\ pc[p] = "call"
    /\ call[p].meth = "Delete"
    /\ LET rowsAffected == Cardinality(RowsNamed(call[p].name))
       IN IF fails
          THEN /\ PgReturn(p, [NoRet EXCEPT !.err = ErrTransport])
               /\ UNCHANGED rows
          ELSE IF rowsAffected = 0
          THEN /\ PgReturn(p, [NoRet EXCEPT !.err = ErrLocationNotFound])
               /\ UNCHANGED rows
          ELSE /\ rows' = rows \ RowsNamed(call[p].name)
               /\ PgReturn(p, NoRet)
    /\ UNCHANGED <<heap, call, memVars, serial, backend, conv>>

(* ORDER BY geom <-> point LIMIT 1: the rows the query can return *)
NearestRows(q) ==
    {row \in rows : \A other \in rows :
        STDistance(q, RowCoordinate(row)) <= STDistance(q, RowCoordinate(other))}

(* FindNearest that takes sql.ErrNoRows for a result *)
PgNearestNoRowsAsNil(fails, found, q) ==
    IF fails THEN [NoRet EXCEPT !.err = ErrTransport]
    ELSE IF found = {} THEN NoRet
    ELSE LET row == CHOOSE r \in found : TRUE
         IN [NoRet EXCEPT !.val = ScanLocation(row),
                          !.dist = STDistance(q, RowCoordinate(row))]

(* lines 167-172: what FindNearest makes of the outcome of the query *)
PgNearest(fails, found, q) ==
    IF fails THEN [NoRet EXCEPT !.err = ErrTransport]
    ELSE IF found = {} THEN [NoRet EXCEPT !.err = ErrLocationNotFound]
    ELSE LET row == CHOOSE r \in found : TRUE
         IN [NoRet EXCEPT !.val = ScanLocation(row),
                          !.dist = STDistance(q, RowCoordinate(row))]

(* FindNearest, lines 148-176 *)
PgFindNearest(p, fails) ==
    /\ backend = PostgresRepository
    /\ pc[p] = "call"
    /\ call[p].meth = "FindNearest"
    /\ IF NearestRows(call[p].q) = {}
       THEN PgReturn(p, PgNearest(fails, {}, call[p].q))
       ELSE \E row \in NearestRows(call[p].q) :
               PgReturn(p, PgNearest(fails, {row}, call[p].q))
    /\ UNCHANGED <<heap, call, memVars, pgVars, backend, conv>>

(* One step of a method of the PostgreSQL repository. *)
PgStep(p, fails) ==
    \/ PgSaveCheck(p, fails)
    \/ PgSaveInsert(p, fails)
    \/ PgFindByName(p, fails)
    \/ PgFindByID(p, fails)
    \/ PgFindAll(p, fails)
    \/ PgDelete(p, fails)
    \/ PgFindNearest(p, fails)

----------------------------------------------------------------------------
(* internal/domain and internal/service *)

IsSpace(c) == c \in {" ", "\t", "\n", "\r"}

RECURSIVE TrimLeft(_)
TrimLeft(s) == IF s # <<>> /\ IsSpace(Head(s)) THEN TrimLeft(Tail(s)) ELSE s

RECURSIVE TrimRight(_)
TrimRight(s) ==
    IF s # <<>> /\ IsSpace(s[Len(s)]) THEN TrimRight(SubSeq(s, 1, Len(s) - 1)) ELSE s

(* strings.TrimSpace *)
TrimSpace(s) == TrimRight(TrimLeft(s))

(* Location.Validate: the name is not empty, the coordinates are in range *)
Validate(location) ==
    /\ location.Name # <<>>
    /\ location.Latitude >= -900 /\ location.Latitude <= 900
    /\ location.Longitude >= -1800 /\ location.Longitude <= 1800

NewLocation(name, latitude, longitude) ==
    [ID |-> <<>>, Name |-> TrimSpace(name), Latitude |-> latitude,
     Longitude |-> longitude, CreatedAt |-> Now]

(* CreateLocation that takes every NewLocation for a success *)
CreateRejectsNever(location) == FALSE

(* CreateLocation that takes every NewLocation for a failure *)
CreateRejectsAlways(location) == TRUE

(* domain lines 242-244 and service lines 23-26: the error of Validate *)
(* is returned before any call of the repository                       *)
CreateRejects(location) == ~Validate(location)

(* LocationService.CreateLocation up to its call of s.repo.FindByName(name); *)
(* call keeps the arguments: the name as given, the coordinates in q.       *)
CallCreateLocation(p, name, c) ==
    /\ LET location == NewLocation(name, c.Latitude, c.Longitude)
       IN IF CreateRejects(location)
          THEN /\ pc' = [pc EXCEPT ![p] = "done"]
               /\ call' = [call EXCEPT ![p] = [NoCall EXCEPT !.svc = "create", !.name = name,
                                                            !.q = c]]
               /\ ret' = [ret EXCEPT ![p] = [NoRet EXCEPT !.err = ErrInvalidLocation]]
               /\ UNCHANGED heap
          ELSE /\ Len(heap) < MaxObjs
               /\ heap' = Append(heap, location)
               /\ Begin(p, [NoCall EXCEPT !.svc = "create", !.meth = "FindByName",
                                          !.name = name, !.q = c, !.loc = Len(heap) + 1])
    /\ UNCHANGED <<memVars, pgVars, backend, conv>>

(* HTTP handlers, internal/handlers/location_handler.go *)

(* err.Error(): the message of an error, character by character *)
ErrorText(err) ==
    CASE err = ErrLocationNotFound ->
           <<"l", "o", "c", "a", "t", "i", "o", "n", " ", "n", "o",
             "t", " ", "f", "o", "u", "n", "d">>
      [] err = ErrLocationExists ->
           <<"l", "o", "c", "a", "t", "i", "o", "n", " ", "a", "l",
             "r", "e", "a", "d", "y", " ", "e", "x", "i", "s", "t",
             "s">>
      [] err = ErrInvalidLocation ->
           <<"i", "n", "v", "a", "l", "i", "d", " ", "l", "o", "c",
             "a", "t", "i", "o", "n">>
      [] err = ErrTransport ->
           <<"d", "r", "i", "v", "e", "r", ":", " ", "b", "a", "d",
             " ", "c", "o", "n", "n", "e", "c", "t", "i", "o", "n">>
      [] err = ErrUniqueViolation ->
           <<"p", "q", ":", " ", "d", "u", "p", "l", "i", "c", "a",
             "t", "e", " ", "k", "e", "y", " ", "v", "a", "l", "u",
             "e", " ", "v", "i", "o", "l", "a", "t", "e", "s", " ",
             "u", "n", "i", "q", "u", "e", " ", "c", "o", "n", "s",
             "t", "r", "a", "i", "n", "t">>
      [] OTHER -> <<>>

(* strings.Contains(s, substr) *)
Contains(s, substr) ==
    \E i \in 0..(Len(s) - Len(substr)) : SubSeq(s, i + 1, i + Len(substr)) = substr

AlreadyExistsText == <<"a", "l", "r", "e", "a", "d", "y", " ", "e", "x", "i", "s", "t", "s">>

NoLocationsText == <<"n", "o", " ", "l", "o", "c", "a", "t", "i", "o", "n", "s">>

NotFoundText == <<"n", "o", "t", " ", "f", "o", "u", "n", "d">>

StatusOK == "200 OK"

StatusCreated == "201 Created"

StatusBadRequest == "400 Bad Request"

StatusNotFound == "404 Not Found"

StatusConflict == "409 Conflict"

StatusInternalServerError == "500 Internal Server Error"

(* CreateLocation that answers every error with 400 *)
CreateLocationStatusNoConflict(err) ==
    IF err = ErrNil THEN StatusCreated ELSE StatusBadRequest

(* the answer of CreateLocation (POST /locations), lines 102-114 *)
CreateLocationStatus(err) ==
    IF err = ErrNil THEN StatusCreated
    ELSE IF Contains(ErrorText(err), AlreadyExistsText) THEN StatusConflict
    ELSE StatusBadRequest

(* FindNearest that looks for "not found" in the message *)
FindNearestStatusNotFound(err) ==
    IF err = ErrNil THEN StatusOK
    ELSE IF Contains(ErrorText(err), NotFoundText) THEN StatusNotFound
    ELSE StatusInternalServerError

(* the answer of FindNearest (GET /nearest), lines 142-154 *)
FindNearestStatus(err) ==
    IF err = ErrNil THEN StatusOK
    ELSE IF Contains(ErrorText(err), NoLocationsText) THEN StatusNotFound
    ELSE StatusInternalServerError

(* GET /nearest?lat=..&lng=..&unit=..: NearestLocationRequest (lines   *)
(* 30-33) binds lat and lng and has no field for unit; the handler    *)
(* calls service.FindNearest(input.Lat, input.Lng).                   *)
CallGetNearest(p, c, unit) ==
    /\ Begin(p, [NoCall EXCEPT !.svc = "nearest", !.meth = "FindNearest", !.q = c,
                               !.unit = unit])
    /\ UNCHANGED <<heap, memVars, pgVars, backend, conv>>

(* the distance_km of the answer: dto.FromDomainWithDistance(location, *)
(* distance) copies the distance of the repository                     *)
FromDomainWithDistance(r) == r.dist

(* One step of a method of the in-memory repository. *)
Step(p) ==
    \/ Lock(p)
    \/ RLock(p)
    \/ SaveCheck(p)
    \/ SaveStore(p)
    \/ FindByName(p)
    \/ FindAll(p)
    \/ Delete(p)
    \/ FindNearest(p)
    \/ FindByID(p)

----------------------------------------------------------------------------
Init ==
    /\ heap = <<>>
    /\ locations = EmptyMap
    /\ locationsById = EmptyMap
    /\ nextID = 1
    /\ mu = [w |-> NoProc, r |-> {}]
    /\ pc = [p \in Procs |-> "idle"]
    /\ call = [p \in Procs |-> NoCall]
    /\ ret = [p \in Procs |-> NoRet]
    /\ live = {}
    /\ deleted = {}
    /\ backend \in {MemoryRepository, PostgresRepository}
    /\ rows = {}
    /\ serial = 1
    /\ conv = NoConv


(* The operations one caller can start. *)
ClientCalls ==
    /\ Idle(Client)
    /\ \/ \E n \in NewNames, c \in NewCoords : CallSaveNew(Client, n, c)
       \/ \E l \in 1..Len(heap) : CallSaveAgain(Client, l)
       \/ \E n \in LookupNames : CallFindByName(Client, n)
       \/ CallFindAll(Client)
       \/ \E n \in LookupNames : CallDelete(Client, n)
       \/ \E c \in Coords : CallFindNearest(Client, c)
       \/ \E id \in LookupIDs : CallFindByID(Client, id)
       \/ \E n \in RawNames, c \in CreateCoords : CallCreateLocation(Client, n, c)

(* One caller issuing any sequence of operations; the database answers *)
(* every round trip.                                                   *)
Next ==
    \/ ClientCalls
    \/ Step(Client)
    \/ PgStep(Client, FALSE)

Spec == Init /\ [][Next]_vars

(* The same caller, with round trips to the database that can fail. *)
NextFaulty ==
    \/ ClientCalls
    \/ Step(Client)
    \/ \E fails \in BOOLEAN : PgStep(Client, fails)

SpecFaulty == Init /\ [][NextFaulty]_vars

(* Every caller creating one location of the same name, concurrently. *)
NextCreate ==
    \E p \in Procs :
        \/ /\ pc[p] = "idle"
           /\ \/ \E n \in RaceRawNames, c \in NewCoords : CallCreateLocation(p, n, c)
              \/ \E c \in NewCoords : CallSaveNew(p, RaceName, c)
        \/ Lock(p)
        \/ RLock(p)
        \/ SaveCheck(p)
        \/ SaveStore(p)
        \/ FindByName(p)

InitMemory == Init /\ backend = MemoryRepository

SpecCreate == InitMemory /\ [][NextCreate]_vars

(* Location%d: the name each of the concurrent callers saves *)
SaverName == [p \in Procs |-> IF p = "p1" THEN <<"a">> ELSE <<"b">>]

(* Every caller saving one location under a name of its own, without an *)
(* id, in the in-memory store, concurrently.                           *)
NextDistinct ==
    \E p \in Procs :
        \/ /\ pc[p] = "idle"
           /\ \E c \in Coords : CallSaveNew(p, SaverName[p], c)
        \/ Lock(p)
        \/ SaveCheck(p)
        \/ SaveStore(p)

SpecDistinct == InitMemory /\ [][NextDistinct]_vars

(* One caller of the in-memory store that also saves locations with an  *)
(* id of its own, saves nil, and writes to the Locations it holds.      *)
NextCaller ==
    \/ /\ Idle(Client)
       /\ \/ \E n \in NewNames : CallSaveNew(Client, n, PtC)
          \/ \E n \in NewNames, id \in PresetIDs : CallSaveWithID(Client, n, PtC, id)
          \/ \E l \in 1..Len(heap) : CallSaveAgain(Client, l)
          \/ CallSaveNil(Client)
          \/ \E n \in NewNames : CallDelete(Client, n)
          \/ \E n \in NewNames : CallFindByName(Client, n)
          \/ \E id \in LookupIDs : CallFindByID(Client, id)
    \/ \E l \in 1..Len(heap), c \in MutatedCoords : MutateSaved(Client, l, c)
    \/ \E c \in MutatedCoords : MutateReturned(Client, c)
    \/ Lock(Client)
    \/ RLock(Client)
    \/ SaveCheck(Client)
    \/ SaveStore(Client)
    \/ Delete(Client)
    \/ FindByName(Client)
    \/ FindByID(Client)

SpecCaller == InitMemory /\ [][NextCaller]_vars

(* One caller creating locations through the service, with names and   *)
(* coordinates at and around the limits, on either store.              *)
NextValidate ==
    \/ /\ Idle(Client)
       /\ \E n \in CreateNames, c \in EdgeCoords : CallCreateLocation(Client, n, c)
    \/ RLock(Client)
    \/ FindByName(Client)
    \/ Lock(Client)
    \/ SaveCheck(Client)
    \/ SaveStore(Client)
    \/ PgFindByName(Client, FALSE)
    \/ PgSaveCheck(Client, FALSE)
    \/ PgSaveInsert(Client, FALSE)

SpecValidate == Init /\ [][NextValidate]_vars

(* Every caller issuing any sequence of operations on the in-memory    *)
(* store, concurrently, on one name, one point and one id.             *)
NextConcurrent ==
    \E p \in Procs :
        \/ /\ Idle(p)
           /\ \/ CallSaveNew(p, RaceName, PtC)
              \/ \E l \in 1..Len(heap) : CallSaveAgain(p, l)
              \/ CallDelete(p, RaceName)
              \/ CallFindByName(p, RaceName)
              \/ CallFindAll(p)
              \/ CallFindNearest(p, PtC)
              \/ \E id \in PresetIDs : CallFindByID(p, id)
        \/ Step(p)

SpecConcurrent == InitMemory /\ [][NextConcurrent]_vars

(* Every caller saving (a Location, or nil), deleting and reading one   *)
(* name in the in-memory store, concurrently.                          *)
NextLive ==
    \E p \in Procs :
        \/ /\ Idle(p)
           /\ \/ CallSaveNew(p, RaceName, PtC)
              \/ CallSaveNil(p)
              \/ CallDelete(p, RaceName)
              \/ CallFindByName(p, RaceName)
        \/ Lock(p)
        \/ RLock(p)
        \/ SaveCheck(p)
        \/ SaveStore(p)
        \/ Delete(p)
        \/ FindByName(p)

(* The goroutine of a caller inside a method keeps running (weak        *)
(* fairness of its steps under the lock), and sync.RWMutex lets no      *)
(* Lock or RLock wait for ever on a lock that is released again and     *)
(* again (strong fairness of the acquisitions): a blocked Lock holds    *)
(* back later RLocks, and Unlock wakes the blocked readers first.       *)
FairLive ==
    \A p \in Procs :
        /\ SF_vars(Lock(p))
        /\ SF_vars(RLock(p))
        /\ WF_vars(SaveCheck(p) \/ SaveStore(p) \/ Delete(p) \/ FindByName(p))

SpecLive == InitMemory /\ [][NextLive]_vars /\ FairLive

(* Distances converted to kilometres and back. *)
NextConvert ==
    \/ \E unit \in {"miles", "nautical"}, x \in 0..MaxMiles : ConvStart(unit, x)
    \/ ConvToKm
    \/ ConvBack

SpecConvert == Init /\ [][NextConvert]_vars

(* One caller saving locations and asking for the nearest over HTTP, *)
(* with and without a unit.                                          *)
Units == {"none", "km", "miles"}

NextNearest ==
    \/ /\ Idle(Client)
       /\ \/ \E n \in NewNames, c \in NewCoords : CallSaveNew(Client, n, c)
          \/ \E c \in Coords, unit \in Units : CallGetNearest(Client, c, unit)
    \/ Lock(Client)
    \/ RLock(Client)
    \/ SaveCheck(Client)
    \/ SaveStore(Client)
    \/ FindNearest(Client)
    \/ PgSaveCheck(Client, FALSE)
    \/ PgSaveInsert(Client, FALSE)
    \/ PgFindNearest(Client, FALSE)

SpecNearest == Init /\ [][NextNearest]_vars

(* One caller saves a location; then every caller deletes it, once,   *)
(* the Deletes called while it is stored; either store.               *)
NextDelete ==
    \E p \in Procs :
          \/ /\ \A q \in Procs : pc[q] = "idle"
             /\ \E c \in Coords : CallSaveNew(p, RaceName, c)
          \/ /\ Idle(p)
             /\ call[p].meth # "Delete"
             /\ IF backend = MemoryRepository THEN RaceName \in DOMAIN locations
                ELSE RowsNamed(RaceName) # {}
             /\ CallDelete(p, RaceName)
          \/ Lock(p)
          \/ SaveCheck(p)
          \/ SaveStore(p)
          \/ Delete(p)
          \/ PgSaveCheck(p, FALSE)
          \/ PgSaveInsert(p, FALSE)
          \/ PgDelete(p, FALSE)

SpecDelete == Init /\ [][NextDelete]_vars

(* Every caller saving one location of the same name in the PostgreSQL *)
(* store, concurrently; the database answers every round trip.         *)
NextPgSave ==
    \E p \in Procs :
        \/ /\ pc[p] = "idle"
           /\ \E c \in Coords : CallSaveNew(p, RaceName, c)
        \/ PgSaveCheck(p, FALSE)
        \/ PgSaveInsert(p, FALSE)

InitPostgres == Init /\ backend = PostgresRepository

SpecPgSave == InitPostgres /\ [][NextPgSave]_vars

----------------------------------------------------------------------------
(* Properties *)

Stored == {locations[n] : n \in DOMAIN locations}

Returned(p, meth) ==
    /\ backend = MemoryRepository
    /\ pc[p] = "done"
    /\ call[p].svc = "none"
    /\ call[p].meth = meth

ListElems(list) == {list[i] : i \in DOMAIN list}

(* C1: on a non-empty in-memory store FindNearest(q) returns a stored      *)
(* location L and the distance d = HaversineDistance(q, L), and no stored *)
(* location is nearer to q than d.                                        *)
C1_NearestIsStoredMinimum ==
    \A p \in Procs :
        (Returned(p, "FindNearest") /\ DOMAIN locations # {}) =>
            /\ ret[p].err = ErrNil
            /\ ret[p].loc \in Stored
            /\ ret[p].dist = HaversineDistance(call[p].q, CoordinateOf(ret[p].loc))
            /\ \A l \in Stored :
                  ~FloatLess(HaversineDistance(call[p].q, CoordinateOf(l)), ret[p].dist)

(* C2: a Save of a location whose name is present returns              *)
(* ErrLocationExists and changes nothing: not the two maps, not the id *)
(* counter, not a field of any Location.                               *)
C2_DuplicateSaveRejected ==
    [][\A p \in Procs :
          (/\ backend = MemoryRepository
           /\ pc[p] = "cs"
           /\ call[p].meth = "Save"
           /\ heap[call[p].loc].Name \in DOMAIN locations
           /\ pc'[p] # "cs")
          => (/\ pc'[p] = "done"
              /\ ret'[p].err = ErrLocationExists
              /\ locations' = locations
              /\ locationsById' = locationsById
              /\ nextID' = nextID
              /\ heap' = heap)]_vars

(* C2 witness: a second Location of a stored name was handed to Save and *)
(* turned down.                                                          *)
C2_Witness ==
    /\ Returned(Client, "Save")
    /\ ret[Client].err = ErrLocationExists
    /\ heap[call[Client].loc].Name \in DOMAIN locations
    /\ locations[heap[call[Client].loc].Name] # call[Client].loc

(* C3: a Delete of a name that is not stored, the empty name included, *)
(* returns ErrLocationNotFound and changes nothing in the store.       *)
C3_DeleteAbsentRejected ==
    [][\A p \in Procs :
          (/\ backend = MemoryRepository
           /\ pc[p] = "cs"
           /\ call[p].meth = "Delete"
           /\ call[p].name \notin DOMAIN locations
           /\ pc'[p] # "cs")
          => (/\ pc'[p] = "done"
              /\ ret'[p].err = ErrLocationNotFound
              /\ locations' = locations
              /\ locationsById' = locationsById
              /\ nextID' = nextID
              /\ heap' = heap)]_vars

(* C3 witness: Delete("") turned down on a store that holds a location. *)
C3_Witness ==
    /\ Returned(Client, "Delete")
    /\ call[Client].name = <<>>
    /\ ret[Client].err = ErrLocationNotFound
    /\ DOMAIN locations # {}

(* C4: the location FindByName returns for a saved name carries that    *)
(* name, the coordinates it was saved with, a non-empty id and a        *)
(* non-zero createdAt, also when it was handed to Save with id and      *)
(* createdAt unset.  (No operation of the store writes Latitude or      *)
(* Longitude, so the coordinates are those of the Save.)                *)
C4_SavedThenFound ==
    \A p \in Procs :
        (Returned(p, "FindByName") /\ ret[p].err = ErrNil) =>
            /\ ret[p].loc \in live
            /\ heap[ret[p].loc].Name = call[p].name
            /\ heap[ret[p].loc].ID # <<>>
            /\ heap[ret[p].loc].CreatedAt # ZeroTime

NamedIn(set, name) == \E l \in set : heap[l].Name = name

(* C5: once Delete(name) has succeeded, and until a Save of that name  *)
(* succeeds, FindByName(name) returns ErrLocationNotFound; and until   *)
(* it is saved again the deleted location is returned neither by       *)
(* FindByName nor by FindAll nor by FindNearest.                       *)
C5_DeletedStaysGone ==
    \A p \in Procs :
        /\ (/\ Returned(p, "FindByName")
            /\ NamedIn(deleted, call[p].name)
            /\ ~NamedIn(live, call[p].name))
           => (ret[p].err = ErrLocationNotFound /\ ret[p].loc = NilPtr)
        /\ Returned(p, "FindByName") => ret[p].loc \notin deleted
        /\ Returned(p, "FindNearest") => ret[p].loc \notin deleted
        /\ Returned(p, "FindAll") => ListElems(ret[p].list) \cap deleted = {}

(* C5 witness: FindByName of the name of a deleted location has        *)
(* returned ErrLocationNotFound while another location is stored.      *)
C5_Witness ==
    /\ Returned(Client, "FindByName")
    /\ NamedIn(deleted, call[Client].name)
    /\ ret[Client].err = ErrLocationNotFound
    /\ live # {}

(* C6: FindNearest on a store without a location returns               *)
(* ErrLocationNotFound and no location: on the in-memory store always, *)
(* on the PostgreSQL store whenever the query reached the database     *)
(* (a transport failure is returned as it is, with no location).       *)
C6_NearestOnEmptyStore ==
    \A p \in Procs :
        /\ (Returned(p, "FindNearest") /\ DOMAIN locations = {})
           => (ret[p].err = ErrLocationNotFound /\ ret[p].loc = NilPtr)
        /\ (/\ backend = PostgresRepository
            /\ pc[p] = "done"
            /\ call[p].meth = "FindNearest"
            /\ rows = {})
           => (/\ ret[p].err \in {ErrLocationNotFound, ErrTransport}
               /\ ret[p].val = NoLocation
               /\ ret[p].loc = NilPtr)

(* C6 witness: the table is empty again after an insert and a delete,  *)
(* and FindNearest has answered ErrLocationNotFound.                   *)
C6_Witness ==
    /\ backend = PostgresRepository
    /\ pc[Client] = "done"
    /\ call[Client].meth = "FindNearest"
    /\ rows = {}
    /\ serial > 1
    /\ ret[Client].err = ErrLocationNotFound

(* C7: for a given state of the in-memory store and a given query,    *)
(* FindNearest returns the same location whatever order the range     *)
(* over the map takes, so also when locations tie for the minimum.    *)
C7_NearestDeterministic ==
    \A p \in Procs :
        Returned(p, "FindNearest") =>
            \A order \in RangeOrders(locations) :
                Nearest(order, call[p].q).loc = ret[p].loc

(* C8: for a given state of the in-memory store FindAll returns the   *)
(* locations in the same order whatever order the range over the map  *)
(* takes.                                                             *)
C8_FindAllOrderStable ==
    \A p \in Procs :
        Returned(p, "FindAll") =>
            \A order \in RangeOrders(locations) : FindAllSlice(order) = ret[p].list

(* C9: FindAll returns no error and exactly the locations whose Save   *)
(* succeeded and that no later Delete removed, each of them once.      *)
C9_FindAllExactlyLive ==
    \A p \in Procs :
        Returned(p, "FindAll") =>
            /\ ret[p].err = ErrNil
            /\ ListElems(ret[p].list) = live
            /\ Len(ret[p].list) = Cardinality(live)

(* C9 witness: two locations saved, one of them deleted, and FindAll   *)
(* has returned the other.                                             *)
C9_Witness ==
    /\ Returned(Client, "FindAll")
    /\ deleted # {}
    /\ Len(ret[Client].list) = 1
    /\ ret[Client].list[1] \notin deleted

AllDone == \A p \in Procs : pc[p] = "done"

(* C10: when every caller has finished creating a location of the same *)
(* name on a store that did not hold it, one of them has succeeded,    *)
(* all the others got ErrLocationExists, and one location of that name *)
(* is stored.                                                          *)
C10_OneCreateWins ==
    AllDone =>
        /\ Cardinality({p \in Procs : ret[p].err = ErrNil}) = 1
        /\ \A p \in Procs : ret[p].err \in {ErrNil, ErrLocationExists}
        /\ DOMAIN locations = {RaceName}
        /\ live = {locations[RaceName]}
        /\ Cardinality({l \in 1..Len(heap) : l \in Stored /\ heap[l].Name = RaceName}) = 1

(* C10 witness: the loser passed CreateLocation's FindByName and was   *)
(* turned down by Save.                                                *)
C10_Witness ==
    /\ AllDone
    /\ \E p \in Procs :
          /\ call[p].svc = "create"
          /\ call[p].meth = "Save"
          /\ ret[p].err = ErrLocationExists

(* A Save of the PostgreSQL store that got past its existence check. *)
PassedCheck(p) ==
    /\ backend = PostgresRepository
    /\ call[p].meth = "Save"
    /\ \/ pc[p] = "insert"
       \/ pc[p] = "done" /\ ret[p].err # ErrLocationExists

(* C11: of the concurrent Saves of one name in the PostgreSQL store, at *)
(* most one gets past the existence check: the check and the insert are *)
(* one atomic step.                                                     *)
C11_CheckAndInsertAtomic ==
    Cardinality({p \in Procs : PassedCheck(p)}) <= 1

(* C12: a Save of the PostgreSQL store that is turned down while a row  *)
(* of its name exists returns ErrLocationExists, whether the existence  *)
(* check or the UNIQUE constraint of the INSERT found the row.          *)
C12_DuplicateIsAlreadyExists ==
    \A p \in Procs :
        (/\ backend = PostgresRepository
         /\ pc[p] = "done"
         /\ call[p].meth = "Save"
         /\ ret[p].err # ErrNil
         /\ RowsNamed(heap[call[p].loc].Name) # {})
        => ret[p].err = ErrLocationExists

StoredIDs == {heap[l].ID : l \in Stored}

(* C13: when N callers have concurrently saved N locations of N names,  *)
(* none with an id, on an empty in-memory store, every Save has         *)
(* succeeded and the store holds N locations with N different ids.      *)
C13_DistinctSavesDistinctIds ==
    AllDone =>
        /\ \A p \in Procs : ret[p].err = ErrNil
        /\ DOMAIN locations = {SaverName[p] : p \in Procs}
        /\ Cardinality(Stored) = Cardinality(Procs)
        /\ Cardinality(StoredIDs) = Cardinality(Procs)
        /\ <<>> \notin StoredIDs

(* C13 witness: both callers are done and the caller that allocated its *)
(* Location second got the lock first.                                  *)
C13_Witness ==
    /\ AllDone
    /\ Cardinality(DOMAIN locations) = Cardinality(Procs)
    /\ heap[2].ID = <<"1">>
    /\ heap[1].ID = <<"2">>

(* C14: any two different stored locations of the in-memory store have  *)
(* different ids, whatever Saves and Deletes came before, Saves of      *)
(* locations that arrive with an id included.                           *)
C14_StoredIdsUnique ==
    \A l1, l2 \in Stored : l1 # l2 => heap[l1].ID # heap[l2].ID

(* what a read of the in-memory store returns for each stored name *)
StoredRecords == [n \in DOMAIN locations |-> heap[locations[n]]]

(* C15: a write of a caller to a Location it holds (one it handed to   *)
(* Save, or one a read returned) changes no record of the in-memory    *)
(* store, so no later read returns anything else than before.          *)
C15_CallerWritesNotShared ==
    [][(backend = MemoryRepository /\ pc' = pc /\ heap' # heap)
          => StoredRecords' = StoredRecords]_vars

(* C16: Save(nil) on the in-memory store comes back to its caller with  *)
(* an error, changes nothing in the store and leaves the lock free.     *)
C16_SaveNilReturnsError ==
    [][\A p \in Procs :
          (/\ backend = MemoryRepository
           /\ pc[p] = "cs"
           /\ call[p].meth = "Save"
           /\ call[p].loc = NilPtr
           /\ pc'[p] # "cs")
          => (/\ pc'[p] = "done"
              /\ ret'[p].err # ErrNil
              /\ locations' = locations
              /\ locationsById' = locationsById
              /\ nextID' = nextID
              /\ heap' = heap
              /\ mu'.w = NoProc)]_vars

(* the arguments the Location Entity accepts *)
ValidInput(name, c) ==
    /\ TrimSpace(name) # <<>>
    /\ c.Latitude >= -900 /\ c.Latitude <= 900
    /\ c.Longitude >= -1800 /\ c.Longitude <= 1800

(* C17: CreateLocation with a name that is empty once trimmed, or with  *)
(* a latitude outside [-90, 90] or a longitude outside [-180, 180],     *)
(* returns a validation error without calling FindByName or Save, and   *)
(* the store and every Location are unchanged.                          *)
C17_InvalidCreateTouchesNothing ==
    [][\A p \in Procs :
          (/\ call'[p].svc = "create"
           /\ ~ValidInput(call'[p].name, call'[p].q)
           /\ (pc'[p] # pc[p] \/ call'[p] # call[p]))
          => (/\ pc'[p] = "done"
              /\ call'[p].meth = "none"
              /\ ret'[p].err = ErrInvalidLocation
              /\ ret'[p].loc = NilPtr
              /\ UNCHANGED <<heap, locations, locationsById, nextID, rows, serial>>)]_vars

(* C17 witness: a create with a latitude of 91 turned down on a store  *)
(* that holds a location.                                              *)
C17_Witness ==
    /\ call[Client].svc = "create"
    /\ pc[Client] = "done"
    /\ call[Client].q.Latitude > 900
    /\ ret[Client].err = ErrInvalidLocation
    /\ (DOMAIN locations # {} \/ rows # {})

(* the name of the create is held by a location the create did not store *)
NameTaken(p) ==
    LET name == TrimSpace(call[p].name)
    IN IF backend = MemoryRepository
       THEN name \in DOMAIN locations /\ locations[name] # call[p].loc
       ELSE RowsNamed(name) # {} /\ heap[call[p].loc].ID = <<>>

C19_FailedCheckStopsSave ==
    \A p \in Procs :
        (backend = PostgresRepository /\ call[p].failed) =>
            /\ pc[p] # "insert"
            /\ pc[p] = "done" => (ret[p].err = ErrTransport /\ ret[p].loc = NilPtr)

(* two float64 values that differ by no more than a hundredth *)
WithinOneInHundred(a, b) == a - b <= b \div 100 /\ b - a <= b \div 100

(* C20: the distance FindNearest of the PostgreSQL store returns with a *)
(* location is, as a number, the kilometres the in-memory store returns *)
(* for that location and that query (HaversineDistance), up to the      *)
(* difference between the sphere and the spheroid.                      *)
C20_DistanceInKilometres ==
    \A p \in Procs :
        (/\ backend = PostgresRepository
         /\ pc[p] = "done"
         /\ call[p].meth = "FindNearest"
         /\ ret[p].err = ErrNil
         /\ HaversineDistance(call[p].q, [Latitude |-> ret[p].val.Latitude,
                                          Longitude |-> ret[p].val.Longitude]) # NaN)
        => WithinOneInHundred(ret[p].dist,
               HaversineDistance(call[p].q, [Latitude |-> ret[p].val.Latitude,
                                             Longitude |-> ret[p].val.Longitude]))

(* a caller between the Lock or RLock of a method and its return *)
InCriticalSection(p) == backend = MemoryRepository /\ pc[p] \in {"cs", "store"}

(* C21: while a Save or a Delete of the in-memory store is in its       *)
(* critical section, no other operation is in its own; the reads may be *)
(* in theirs together.                                                  *)
C21_WritersExclusive ==
    \A p1, p2 \in Procs :
        (p1 # p2 /\ InCriticalSection(p1) /\ InCriticalSection(p2))
        => (~IsWriter(call[p1].meth) /\ ~IsWriter(call[p2].meth))

(* C21 witness: a FindAll and a FindNearest in their critical sections *)
(* at the same time, on a store that holds a location.                 *)
C21_Witness ==
    /\ \A p \in Procs : InCriticalSection(p)
    /\ \E p1, p2 \in Procs : call[p1].meth = "FindAll" /\ call[p2].meth = "FindNearest"
    /\ DOMAIN locations # {}

(* C22: every operation a caller has started on the in-memory store    *)
(* comes to its end, by a return or, for Save(nil), by its panic: the   *)
(* lock is released on every path out of a method, and no caller waits  *)
(* for a lock that is never released.                                   *)
C22_EveryOperationReturns ==
    \A p \in Procs : (pc[p] = "call") ~> (pc[p] \in {"done", "panic"})

(* C22 witness: a Delete waits for the lock that a Save holds whose     *)
(* location arrived while another is stored.                            *)
C22_Witness ==
    \E p1, p2 \in Procs :
        /\ pc[p1] = "call" /\ call[p1].meth = "Delete"
        /\ pc[p2] = "cs" /\ call[p2].meth = "Save"
        /\ mu.w = p2
        /\ DOMAIN locations # {}

(* back, in 10^-12 of the unit, is x up to a relative 10^-9 *)
RoundTripClose(back, x) ==
    \/ back.hi = x * 1000 /\ back.lo <= x * 1000
    \/ back.hi = x * 1000 - 1 /\ 1000000000 - back.lo <= x * 1000

(* C23: KmToMiles(MilesToKm(x)) is x up to a relative error of 10^-9,  *)
(* for every x >= 0, and so is KmToNauticalMiles(NauticalMilesToKm(x)). *)
C23_RoundTrip ==
    conv.pc = "done" => RoundTripClose(conv.back, conv.x)

(* the store holds a location of that name *)
NameStored(name) ==
    IF backend = MemoryRepository THEN name \in DOMAIN locations
    ELSE RowsNamed(name) # {}

(* a step of p that ends a POST /locations *)
CreateEnds(p) ==
    /\ call'[p].svc = "create"
    /\ pc'[p] = "done"
    /\ <<pc[p], call[p], ret[p]>> # <<pc'[p], call'[p], ret'[p]>>

C25_NearestOnEmptyAnswers500 ==
    \A p \in Procs :
        (Returned(p, "FindNearest") /\ DOMAIN locations = {})
        => FindNearestStatus(ret[p].err) = StatusInternalServerError

(* C25 witness: GET /nearest answered 500 on an in-memory store that  *)
(* is empty after a Delete.                                           *)
C25_Witness ==
    /\ Returned(Client, "FindNearest")
    /\ DOMAIN locations = {}
    /\ deleted # {}
    /\ FindNearestStatus(ret[Client].err) = StatusInternalServerError

(* C26: GET /nearest accepts a unit query parameter: with unit=miles   *)
(* the distance of the answer is the distance of the nearest location *)
(* in miles (the kilometres times 0.621371), not the kilometres.      *)
C26_UnitMilesConverts ==
    \A p \in Procs :
        (/\ pc[p] = "done"
         /\ call[p].svc = "nearest"
         /\ call[p].unit = "miles"
         /\ ret[p].err = ErrNil
         /\ (ret[p].loc # NilPtr \/ ret[p].val # NoLocation)
         /\ ret[p].dist # NaN)
        => BigMul(FromDomainWithDistance(ret[p]), 1000000) = KmToMiles(ret[p].dist)

(* C27: after any sequence of Save and Delete on the in-memory store   *)
(* the map by name and the map by id hold the same set of locations,  *)
(* and FindByID of the id of a deleted location returns               *)
(* ErrLocationNotFound.                                               *)
C27_MapsHoldSameSet ==
    backend = MemoryRepository =>
        /\ Stored = {locationsById[id] : id \in DOMAIN locationsById}
        /\ \A p \in Procs :
              Returned(p, "FindByID") =>
                  /\ ret[p].loc \notin deleted
                  /\ (\E l \in deleted : heap[l].ID = call[p].name)
                     => ret[p].err = ErrLocationNotFound

(* the number an id of the store is the decimal form of *)
IdNumber(id) == CHOOSE n \in 0..(MaxObjs + MaxSerial + 10) : FormatInt(n) = id

(* the ids locations have been given so far *)
AssignedIds == {heap[l].ID : l \in 1..Len(heap)} \ {<<>>}

(* C28: the id the in-memory store assigns to a location that arrives  *)
(* without one is greater than every id the store assigned earlier,   *)
(* so no id is assigned twice, whatever Deletes and failed Saves      *)
(* happened in between.                                               *)
C28_AssignedIdsIncrease ==
    [][backend = MemoryRepository =>
          \A l \in 1..Len(heap) :
              (heap[l].ID = <<>> /\ heap'[l].ID # <<>>)
              => \A id \in AssignedIds : IdNumber(heap'[l].ID) > IdNumber(id)]_vars

(* C28 witness: a second id has been assigned, and the location of    *)
(* the first has been deleted.                                        *)
C28_Witness ==
    /\ backend = MemoryRepository
    /\ \E l1, l2 \in 1..Len(heap) :
          /\ heap[l1].ID = <<"1">>
          /\ heap[l2].ID = <<"2">>
          /\ l1 \in deleted
          /\ l2 \in live

(* the callers of Delete *)
Deleters == {p \in Procs : call[p].meth = "Delete"}

(* C29: of the concurrent Deletes of one stored name, with no Save of  *)
(* that name under way, exactly one returns nil and every other        *)
(* returns ErrLocationNotFound, on the in-memory and on the PostgreSQL *)
(* store; the name is then not stored.                                *)
C29_OneDeleteWins ==
    (Deleters # {} /\ \A p \in Deleters : pc[p] = "done") =>
        /\ Cardinality({p \in Deleters : ret[p].err = ErrNil}) = 1
        /\ \A p \in Deleters : ret[p].err \in {ErrNil, ErrLocationNotFound}
        /\ ~NameStored(RaceName)

(* C29 witness: two Deletes called while the name was stored have      *)
(* returned, one of them ErrLocationNotFound, on the PostgreSQL store. *)
C29_Witness ==
    /\ backend = PostgresRepository
    /\ Deleters = Procs
    /\ \A p \in Procs : pc[p] = "done"
    /\ \E p \in Procs : ret[p].err = ErrLocationNotFound

(* the step of p at which its operation on the in-memory store ends *)
Completes(p) ==
    /\ backend = MemoryRepository
    /\ pc[p] \in {"cs", "store"}
    /\ pc'[p] \in {"done", "panic"}

(* m2 is the map m with key k set to v *)
IsMapWith(m2, m, k, v) ==
    /\ DOMAIN m2 = DOMAIN m \cup {k}
    /\ m2[k] = v
    /\ \A j \in DOMAIN m \ {k} : m2[j] = m[j]

(* what the operation of p returns, and the store it leaves, when it  *)
(* runs alone on the store as it is                                  *)
RunsAlone(p) ==
    LET l == call[p].loc
        name == call[p].name
        r == ret'[p]
    IN CASE call[p].meth = "Save" ->
              IF l = NilPtr
              THEN pc'[p] = "panic" /\ UNCHANGED <<heap, locations, locationsById, nextID>>
              ELSE IF heap[l].Name \in DOMAIN locations
              THEN /\ pc'[p] = "done"
                   /\ r.err = ErrLocationExists
                   /\ UNCHANGED <<heap, locations, locationsById, nextID>>
              ELSE /\ pc'[p] = "done"
                   /\ r.err = ErrNil
                   /\ heap'[l].ID = (IF heap[l].ID = <<>> THEN FormatInt(nextID)
                                     ELSE heap[l].ID)
                   /\ nextID' = (IF heap[l].ID = <<>> THEN nextID + 1 ELSE nextID)
                   /\ IsMapWith(locations', locations, heap[l].Name, l)
                   /\ IsMapWith(locationsById', locationsById, heap'[l].ID, l)
         [] call[p].meth = "Delete" ->
              /\ pc'[p] = "done"
              /\ UNCHANGED <<heap, locationsById, nextID>>
              /\ IF name \in DOMAIN locations
                 THEN /\ r.err = ErrNil
                      /\ name \notin DOMAIN locations'
                      /\ IsMapWith(locations, locations', name, locations[name])
                 ELSE r.err = ErrLocationNotFound /\ UNCHANGED locations
         [] call[p].meth = "FindByName" ->
              /\ pc'[p] = "done"
              /\ UNCHANGED <<heap, locations, locationsById, nextID>>
              /\ IF name \in DOMAIN locations
                 THEN r.err = ErrNil /\ r.loc = locations[name]
                 ELSE r.err = ErrLocationNotFound /\ r.loc = NilPtr
         [] call[p].meth = "FindByID" ->
              /\ pc'[p] = "done"
              /\ UNCHANGED <<heap, locations, locationsById, nextID>>
              /\ IF name \in DOMAIN locationsById
                 THEN r.err = ErrNil /\ r.loc = locationsById[name]
                 ELSE r.err = ErrLocationNotFound /\ r.loc = NilPtr
         [] call[p].meth = "FindAll" ->
              /\ pc'[p] = "done"
              /\ UNCHANGED <<heap, locations, locationsById, nextID>>
              /\ r.err = ErrNil
              /\ Len(r.list) = Cardinality(DOMAIN locations)
              /\ ListElems(r.list) = Stored
         [] call[p].meth = "FindNearest" ->
              /\ pc'[p] = "done"
              /\ UNCHANGED <<heap, locations, locationsById, nextID>>
              /\ \E order \in RangeOrders(locations) : r = Nearest(order, call[p].q)
         [] OTHER -> FALSE

(* C30: every concurrent execution of the operations of the in-memory *)
(* store is linearizable: each operation takes effect at one step     *)
(* between its call and its return, where it returns what it returns  *)
(* when it runs alone on the store as it is at that step, and the     *)
(* store is changed by no other step.                                 *)
C30_Linearizable ==
    [][/\ \A p \in Procs : Completes(p) => RunsAlone(p)
       /\ (<<locations, locationsById, nextID>> # <<locations', locationsById', nextID'>>)
             => \E p \in Procs : Completes(p)
       /\ \A l \in 1..Len(heap) :
             heap'[l] # heap[l] => \E p \in Procs : Completes(p) /\ call[p].loc = l]_vars

(* C30 witness: a Save is between its check and its insert while the  *)
(* other caller has called Delete and not returned, on a store that   *)
(* has been written and deleted from.                                 *)
C30_Witness ==
    \E p1, p2 \in Procs :
        /\ pc[p1] = "store"
        /\ pc[p2] = "call" /\ call[p2].meth = "Delete"
        /\ deleted # {}
        /\ DOMAIN locationsById # {}

=============================================================================
